---- MODULE Spec2Model ----
(***************************************************************************)
(* Model of the Clerky CrewAI backend: the configuration resolver          *)
(* (crew.py get_llm_config / create_llm), the intent classifier            *)
(* (crew.py classify_intent), the single-agent and full-crew runners       *)
(* (crew.py run_single_agent / run_full_crew) and the HTTP handlers that   *)
(* drive them (server.py crew_chat / configure_llm / classify).            *)
(*                                                                         *)
(* Text that the code inspects character by character (queries, API keys,  *)
(* base URLs, jurisdictions) is a sequence of one-character strings, so    *)
(* that lower(), `in` and startswith() are computed, not assumed.          *)
(***************************************************************************)
EXTENDS Integers, Sequences, FiniteSets, TLC

VARIABLES
    env,          \* os.environ: a function from the names that are set to their values
    yaml,         \* ~/.genspark_llm.yaml: what yaml.safe_load returns, or no file
    pc,           \* position of the chat request in crew_chat / run_*
    req,          \* the ChatRequest being served
    cfg,          \* crew_chat's local cfg (server.py line 169)
    agent_type,   \* crew_chat's local agent_type (server.py line 182)
    llm,          \* the LLM client built by create_llm inside run_*
    tasks,        \* the Task list handed to Crew(...)
    submitted,    \* roles of the tasks the crew has submitted to the LLM, in order
    outputs,      \* outputs of the tasks that completed
    result,       \* the dict returned by run_single_agent / run_full_crew
    response,     \* what crew_chat answers
    cfgReads,     \* get_llm_config calls made inside the current run_* invocation
    classifyCalls,\* classify_intent calls made for the current request
    cpc,          \* position of the configure request in configure_llm
    creq,         \* the ConfigureRequest being served
    ccfg,         \* configure_llm's local cfg (server.py line 266)
    cresp,        \* what configure_llm answered last
    lastKey,      \* api_key of the configure request that returned last, if none started since
    nconf,        \* configure requests served so far
    cmsg,         \* message of the GET /api/crew/classify request
    cbest         \* its answer, once given

vars == << env, yaml, pc, req, cfg, agent_type, llm, tasks, submitted, outputs,
           result, response, cfgReads, classifyCalls, cpc, creq, ccfg, cresp,
           lastKey, nconf, cmsg, cbest >>

chatVars == << pc, req, cfg, agent_type, llm, tasks, submitted, outputs,
               result, response, cfgReads, classifyCalls >>
confVars == << env, cpc, creq, ccfg, cresp, lastKey, nconf >>
classVars == << cmsg, cbest >>

(***************************************************************************)
(* Bounds of the model.                                                    *)
(***************************************************************************)
\* Number of fragments concatenated into a message given to the classifier.
MaxFragments == 2
\* Number of configure requests served in one behaviour.
MaxConfigures == 1

(***************************************************************************)
(* Text: str.lower(), `needle in haystack`, str.startswith.                *)
(***************************************************************************)
UpperChars ==
  << "A","B","C","D","E","F","G","H","I","J","K","L","M",
     "N","O","P","Q","R","S","T","U","V","W","X","Y","Z" >>
LowerChars ==
  << "a","b","c","d","e","f","g","h","i","j","k","l","m",
     "n","o","p","q","r","s","t","u","v","w","x","y","z" >>

\* str.lower() on one character
LowerChar(c) ==
  IF \E i \in 1..Len(UpperChars) : UpperChars[i] = c
    THEN LowerChars[CHOOSE i \in 1..Len(UpperChars) : UpperChars[i] = c]
    ELSE c

\* str.lower()
RECURSIVE Lower(_)
Lower(s) == IF s = << >> THEN << >> ELSE << LowerChar(Head(s)) >> \o Lower(Tail(s))

\* Python's `needle in haystack` on strings
Contains(haystack, needle) ==
  \E i \in 1..(Len(haystack) - Len(needle) + 1) :
     \A j \in 1..Len(needle) : haystack[i + j - 1] = needle[j]

\* any(p in msg for p in phrases)
ContainsAny(msg, phrases) ==
  \E i \in 1..Len(phrases) : Contains(msg, phrases[i])

\* str.startswith
StartsWith(s, prefix) ==
  /\ Len(s) >= Len(prefix)
  /\ \A j \in 1..Len(prefix) : s[j] = prefix[j]

RECURSIVE Concat(_)
Concat(ss) == IF ss = << >> THEN << >> ELSE Head(ss) \o Concat(Tail(ss))

(***************************************************************************)
(* Configuration resolver: crew.py get_llm_config and create_llm.          *)
(***************************************************************************)
\* os.environ.get(name, default)
EnvGet(e, name, default) == IF name \in DOMAIN e THEN e[name] ELSE default

\* os.environ[name] = value
EnvSet(e, name, value) ==
  [n \in (DOMAIN e) \cup {name} |-> IF n = name THEN value ELSE e[n]]

TemplatePrefix == <<"$","{">>
DefaultNovitaUrl == <<"h","t","t","p","s",":","/","/","a","p","i",".","n","o","v","i","t","a",".","a","i","/","v","3","/","o","p","e","n","a","i">>
DefaultModel == "gpt-5-mini"
DefaultNovitaModel == "claude-3-5-sonnet-20241022"

\* Priority 1 (lines 20-22): the environment variables
EnvConfig(e) ==
  [ api_key  |-> EnvGet(e, "OPENAI_API_KEY", << >>),
    base_url |-> EnvGet(e, "OPENAI_BASE_URL", << >>),
    model    |-> EnvGet(e, "CREWAI_MODEL", DefaultModel) ]

\* Priority 2 (lines 25-40): a value of the YAML file replaces the one found so
\* far when it is non-empty and does not start with "${"
YamlConfig(c, y) ==
  IF y.exists /\ y.openai
    THEN [ c EXCEPT
             !.api_key  = IF y.api_key # << >> /\ ~StartsWith(y.api_key, TemplatePrefix)
                            THEN y.api_key ELSE @,
             !.base_url = IF y.base_url # << >> /\ ~StartsWith(y.base_url, TemplatePrefix)
                            THEN y.base_url ELSE @ ]
    ELSE c

\* Priority 3 (lines 43-48): the Novita key, used when no key was found so far
NovitaConfig(c, e) ==
  IF EnvGet(e, "NOVITA_API_KEY", << >>) # << >> /\ c.api_key = << >>
    THEN [ api_key  |-> EnvGet(e, "NOVITA_API_KEY", << >>),
           base_url |-> EnvGet(e, "NOVITA_BASE_URL", DefaultNovitaUrl),
           model    |-> EnvGet(e, "CREWAI_MODEL", DefaultNovitaModel) ]
    ELSE c

get_llm_config(e, y) == NovitaConfig(YamlConfig(EnvConfig(e), y), e)

\* The keyword arguments create_llm passes to LLM(...): api_key and base_url
\* only when they are non-empty.
create_llm(e, y) ==
  LET c == get_llm_config(e, y)
      names == {"model", "max_tokens"}
                 \cup (IF c.api_key # << >> THEN {"api_key"} ELSE {})
                 \cup (IF c.base_url # << >> THEN {"base_url"} ELSE {})
  IN  [ n \in names |-> IF n = "max_tokens" THEN 4096 ELSE c[n] ]

(***************************************************************************)
(* Intent classification: crew.py classify_intent.                         *)
(***************************************************************************)

\* lines 303-305
research_kw ==
  << <<"r","e","s","e","a","r","c","h">>,
     <<"c","a","s","e"," ","l","a","w">>,
     <<"p","r","e","c","e","d","e","n","t">>,
     <<"s","t","a","t","u","t","e">>,
     <<"f","i","n","d">>,
     <<"s","e","a","r","c","h">>,
     <<"c","i","t","e">>,
     <<"c","i","t","a","t","i","o","n">>,
     <<"a","u","t","h","o","r","i","t","y">>,
     <<"h","o","l","d","i","n","g">>,
     <<"r","u","l","i","n","g">>,
     <<"s","o","l">>,
     <<"l","i","m","i","t","a","t","i","o","n">>,
     <<"r","u","l","e">>,
     <<"r","e","g","u","l","a","t","i","o","n">>,
     <<"c","o","d","e">>,
     <<"p","r","e","e","m","p","t","i","o","n">> >>

\* line 309
kansas_phrases ==
  << <<"k",".","s",".","a">>,
     <<"k","s","a"," ">>,
     <<"k","a","n","s","a","s"," ","s","t","a","t","u","t","e">>,
     <<"c","h","a","p","t","e","r"," ","6","0">>,
     <<"1","0","t","h"," ","c","i","r","c","u","i","t">> >>

\* line 311
missouri_phrases ==
  << <<"r","s","m","o">>,
     <<"r",".","s",".","m","o">>,
     <<"m","i","s","s","o","u","r","i"," ","s","t","a","t","u","t","e">>,
     <<"m","i","s","s","o","u","r","i"," ","s","u","p","r","e","m","e"," ","c","o","u","r","t"," ","r","u","l","e">>,
     <<"8","t","h"," ","c","i","r","c","u","i","t">> >>

\* lines 315-317
draft_kw ==
  << <<"d","r","a","f","t">>,
     <<"w","r","i","t","e">>,
     <<"p","r","e","p","a","r","e">>,
     <<"c","r","e","a","t","e">>,
     <<"g","e","n","e","r","a","t","e">>,
     <<"m","o","t","i","o","n">>,
     <<"c","o","m","p","l","a","i","n","t">>,
     <<"l","e","t","t","e","r">>,
     <<"b","r","i","e","f">>,
     <<"c","o","n","t","r","a","c","t">>,
     <<"a","g","r","e","e","m","e","n","t">>,
     <<"p","e","t","i","t","i","o","n">>,
     <<"t","e","m","p","l","a","t","e">>,
     <<"e","n","g","a","g","e","m","e","n","t">>,
     <<"d","e","m","a","n","d">>,
     <<"d","i","s","c","o","v","e","r","y"," ","r","e","q","u","e","s","t">> >>

\* line 321
draft_phrases ==
  << <<"d","r","a","f","t"," ","a">>,
     <<"d","r","a","f","t"," ","t","h","e">>,
     <<"d","r","a","f","t"," ","m","y">> >>

motion_to == <<"m","o","t","i","o","n"," ","t","o">>

\* lines 327-329
analyst_kw ==
  << <<"r","i","s","k">>,
     <<"a","s","s","e","s","s">>,
     <<"e","v","a","l","u","a","t">>,
     <<"a","n","a","l","y","z">>,
     <<"r","e","v","i","e","w">>,
     <<"s","t","r","e","n","g","t","h">>,
     <<"w","e","a","k","n","e","s","s">>,
     <<"e","x","p","o","s","u","r","e">>,
     <<"d","a","m","a","g","e">>,
     <<"i","n","c","o","n","s","i","s","t","e","n">>,
     <<"d","e","p","o","s","i","t","i","o","n">>,
     <<"e","n","f","o","r","c","e","a","b">>,
     <<"s","c","o","r","e">>,
     <<"a","u","d","i","t">>,
     <<"c","a","l","c","u","l","a","t","e">>,
     <<"c","o","m","p","a","r","a","t","i","v","e"," ","f","a","u","l","t">> >>

risk_assess == <<"r","i","s","k"," ","a","s","s","e","s","s">>

what_am_i_missing == <<"w","h","a","t"," ","a","m"," ","i"," ","m","i","s","s","i","n","g">>

\* lines 339-341
strategist_kw ==
  << <<"s","t","r","a","t","e","g">>,
     <<"s","e","t","t","l","e">>,
     <<"s","e","t","t","l","e","m","e","n","t">>,
     <<"t","i","m","e","l","i","n","e">>,
     <<"c","a","l","e","n","d","a","r">>,
     <<"d","e","a","d","l","i","n","e">>,
     <<"b","u","d","g","e","t">>,
     <<"s","c","e","n","a","r","i","o">>,
     <<"o","p","t","i","o","n">>,
     <<"p","l","a","n">>,
     <<"m","e","d","i","a","t">>,
     <<"a","r","b","i","t","r","a","t">>,
     <<"t","r","i","a","l">>,
     <<"r","e","c","o","m","m","e","n","d">>,
     <<"p","r","o","a","c","t","i","v","e">>,
     <<"m","i","s","s","i","n","g">>,
     <<"n","e","x","t"," ","s","t","e","p">>,
     <<"a","p","p","e","a","l">> >>


\* for k in kws: if k in msg: score += 3
KeywordScore(msg, kws) ==
  3 * Cardinality({ i \in 1..Len(kws) : Contains(msg, kws[i]) })

Bonus(cond, points) == IF cond THEN points ELSE 0

\* The scores dict after line 346, for the lowercased message msg
Scores(msg) ==
  [ researcher |-> KeywordScore(msg, research_kw)
                     + Bonus(ContainsAny(msg, kansas_phrases), 6)
                     + Bonus(ContainsAny(msg, missouri_phrases), 6),
    analyst    |-> KeywordScore(msg, analyst_kw)
                     + Bonus(Contains(msg, risk_assess), 5)
                     + Bonus(Contains(msg, what_am_i_missing), 4),
    drafter    |-> KeywordScore(msg, draft_kw)
                     + Bonus(ContainsAny(msg, draft_phrases), 5)
                     + Bonus(Contains(msg, motion_to), 6),
    strategist |-> KeywordScore(msg, strategist_kw)
                     + Bonus(Contains(msg, what_am_i_missing), 5) ]

\* The keys of the scores dict (line 300) and of the agents dict (lines 188-193),
\* in insertion order
RoleOrder == << "researcher", "analyst", "drafter", "strategist" >>
Roles == { RoleOrder[i] : i \in 1..Len(RoleOrder) }

\* max(scores, key=scores.get): the keys are visited in insertion order and a
\* key replaces the best so far only when its score is strictly greater
RECURSIVE MaxFrom(_, _, _)
MaxFrom(scores, i, best) ==
  IF i > Len(RoleOrder) THEN best
  ELSE IF scores[RoleOrder[i]] > scores[best]
         THEN MaxFrom(scores, i + 1, RoleOrder[i])
         ELSE MaxFrom(scores, i + 1, best)

\* A mutant of PyMax: on a tie the later key wins.
RECURSIVE MaxFromLast(_, _, _)
MaxFromLast(scores, i, best) ==
  IF i > Len(RoleOrder) THEN best
  ELSE IF scores[RoleOrder[i]] >= scores[best]
         THEN MaxFromLast(scores, i + 1, RoleOrder[i])
         ELSE MaxFromLast(scores, i + 1, best)
PyMaxLast(scores) == MaxFromLast(scores, 2, RoleOrder[1])

PyMax(scores) == MaxFrom(scores, 2, RoleOrder[1])

classify_intent(message) ==
  LET msg == Lower(message)
      scores == Scores(msg)
      best == PyMax(scores)
  IN  IF scores[best] > 0 THEN best ELSE "strategist"

(***************************************************************************)
(* Task templates: crew.py create_*_task, and the jurisdiction table.      *)
(***************************************************************************)
\* The jx_display table of run_single_agent (lines 374-379) and run_full_crew
\* (lines 432-437): looked up by the lowercased jurisdiction, which passes
\* through unchanged when it is not a key
jx_display(jurisdiction) ==
  LET j == Lower(jurisdiction)
  IN  CASE j = <<"k","a","n","s","a","s">> -> <<"K","a","n","s","a","s">>
        [] j = <<"m","i","s","s","o","u","r","i">> -> <<"M","i","s","s","o","u","r","i">>
        [] j = <<"f","e","d","e","r","a","l">> -> <<"F","e","d","e","r","a","l">>
        [] j = <<"m","u","l","t","i","s","t","a","t","e">> -> <<"K","a","n","s","a","s"," ","&"," ","M","i","s","s","o","u","r","i">>
        [] OTHER -> jurisdiction

\* Python's `x or default` on strings
OrElse(x, default) == IF x # "" THEN x ELSE default

create_research_task(agent, query, jurisdiction) ==
  [ agent |-> agent, query |-> query, jurisdiction |-> jurisdiction,
    expected_output |-> "Structured legal research memo" ]

create_analysis_task(agent, query, jurisdiction, matter_facts) ==
  [ agent |-> agent, query |-> query, jurisdiction |-> jurisdiction,
    matter_facts |-> OrElse(matter_facts, "Not specified"),
    expected_output |-> "Risk scorecard" ]

create_drafting_task(agent, query, jurisdiction, document_type, matter_facts) ==
  [ agent |-> agent, query |-> query, jurisdiction |-> jurisdiction,
    doc_type |-> OrElse(document_type, "legal document"),
    matter_facts |-> OrElse(matter_facts, "General template"),
    expected_output |-> "Complete document in Markdown" ]

create_strategy_task(agent, query, jurisdiction, matter_facts) ==
  [ agent |-> agent, query |-> query, jurisdiction |-> jurisdiction,
    matter_facts |-> OrElse(matter_facts, "Not specified"),
    expected_output |-> "Strategic plan" ]

(***************************************************************************)
(* run_single_agent: lines 363-398, up to the Crew being built.            *)
(***************************************************************************)
\* lines 368-369: the agent type is classified when none is given
ResolveAgentType(a, query) == IF a = "" THEN classify_intent(query) ELSE a

\* A mutant of HasAgent: an unknown agent type is served by some agent.
HasAgentAlways(a) == TRUE

\* line 371: agents[agent_type] raises KeyError unless the type is a key of
\* the dict create_agents returns
HasAgent(a) == a \in Roles

\* lines 381-390: the task of the agent type; the else branch builds the
\* research task for whatever agent line 371 found
SingleTask(a, r) ==
  LET jx == jx_display(r.jurisdiction)
      agent == IF a \in Roles THEN a ELSE "researcher"
  IN  CASE a = "researcher" -> create_research_task(agent, r.message, jx)
        [] a = "analyst"    -> create_analysis_task(agent, r.message, jx, r.matter_facts)
        [] a = "drafter"    -> create_drafting_task(agent, r.message, jx,
                                                    r.document_type, r.matter_facts)
        [] a = "strategist" -> create_strategy_task(agent, r.message, jx, r.matter_facts)
        [] OTHER            -> create_research_task(agent, r.message, jx)

(***************************************************************************)
(* run_full_crew: lines 429-457, up to the Crew being built.               *)
(***************************************************************************)
\* line 445
drafter_triggers ==
  << <<"d","r","a","f","t">>,
     <<"w","r","i","t","e">>,
     <<"p","r","e","p","a","r","e">>,
     <<"m","o","t","i","o","n">>,
     <<"c","o","m","p","l","a","i","n","t">>,
     <<"l","e","t","t","e","r">> >>

\* A mutant of NeedsDrafter: the query is searched without being lowercased.
NeedsDrafterCaseSensitive(query, document_type) ==
  document_type # "" \/ ContainsAny(query, drafter_triggers)

\* line 445: document_type or any(kw in query.lower() for kw in [...])
NeedsDrafter(query, document_type) ==
  document_type # "" \/ ContainsAny(Lower(query), drafter_triggers)

\* A mutant of FullTasks: the drafting task is appended after the strategy task.
FullTasksDrafterLast(r) ==
  LET jx == jx_display(r.jurisdiction)
  IN  << create_research_task("researcher", r.message, jx),
         create_analysis_task("analyst", r.message, jx, r.matter_facts),
         create_strategy_task("strategist", r.message, jx, r.matter_facts) >>
      \o (IF NeedsDrafter(r.message, r.document_type)
            THEN << create_drafting_task("drafter", r.message, jx,
                                         r.document_type, r.matter_facts) >>
            ELSE << >>)

\* A mutant of FullTasks: a forced role that is one of the four runs alone.
FullTasksForced(r) ==
  LET jx == jx_display(r.jurisdiction)
  IN  IF r.agent_type \in Roles
        THEN << SingleTask(r.agent_type, r) >>
        ELSE << create_research_task("researcher", r.message, jx),
                create_analysis_task("analyst", r.message, jx, r.matter_facts) >>
             \o (IF NeedsDrafter(r.message, r.document_type)
                   THEN << create_drafting_task("drafter", r.message, jx,
                                                r.document_type, r.matter_facts) >>
                   ELSE << >>)
             \o << create_strategy_task("strategist", r.message, jx, r.matter_facts) >>

\* lines 439-450: the task list of the full crew
FullTasks(r) ==
  LET jx == jx_display(r.jurisdiction)
  IN  << create_research_task("researcher", r.message, jx),
         create_analysis_task("analyst", r.message, jx, r.matter_facts) >>
      \o (IF NeedsDrafter(r.message, r.document_type)
            THEN << create_drafting_task("drafter", r.message, jx,
                                         r.document_type, r.matter_facts) >>
            ELSE << >>)
      \o << create_strategy_task("strategist", r.message, jx, r.matter_facts) >>

(***************************************************************************)
(* Results: the dicts run_single_agent and run_full_crew return, and the   *)
(* ChatResponse crew_chat builds from them.                                *)
(***************************************************************************)
\* A local that holds nothing yet
Nil == [ nil |-> TRUE ]

\* str(result) of crew.kickoff(): the raw text of the last task's output
CrewContent(outs) == outs[Len(outs)].raw

\* result.token_usage of crew.kickoff(): the usage summed over the tasks
RECURSIVE TotalTokens(_)
TotalTokens(outs) ==
  IF outs = << >> THEN 0 ELSE Head(outs).total_tokens + TotalTokens(Tail(outs))

\* lines 402-409
SingleSuccess(a, jurisdiction, outs, e, y) ==
  [ success |-> TRUE, agent_type |-> a, content |-> CrewContent(outs),
    jurisdiction |-> jurisdiction, model |-> get_llm_config(e, y).model,
    token_usage |-> [ total_tokens |-> TotalTokens(outs) ] ]

\* A mutant of SingleFailure: the failed result does not name the agent type.
SingleFailureUnknown(a, error, jurisdiction) ==
  [ success |-> FALSE, agent_type |-> "unknown", error |-> error,
    content |-> "", jurisdiction |-> jurisdiction ]

\* lines 411-418
SingleFailure(a, error, jurisdiction) ==
  [ success |-> FALSE, agent_type |-> OrElse(a, "unknown"), error |-> error,
    content |-> "", jurisdiction |-> jurisdiction ]

\* lines 461-470
FullSuccess(jurisdiction, tsks, outs, e, y) ==
  [ success |-> TRUE, agent_type |-> "full_crew", content |-> CrewContent(outs),
    jurisdiction |-> jurisdiction, model |-> get_llm_config(e, y).model,
    agents_used |-> RoleOrder, tasks_completed |-> Len(tsks),
    token_usage |-> [ total_tokens |-> TotalTokens(outs) ] ]

\* A mutant of FullFailure: what the tasks before the failing one produced is reported.
FullFailurePartial(error, jurisdiction) ==
  [ success |-> FALSE, agent_type |-> "full_crew", error |-> error,
    content |-> IF outputs = << >> THEN "" ELSE CrewContent(outputs),
    jurisdiction |-> jurisdiction,
    token_usage |-> [ total_tokens |-> TotalTokens(outputs) ] ]

\* lines 472-479
FullFailure(error, jurisdiction) ==
  [ success |-> FALSE, agent_type |-> "full_crew", error |-> error,
    content |-> "", jurisdiction |-> jurisdiction ]

\* server.py lines 209-214: result.get("token_usage", {}) and its total
TokensOf(res) ==
  IF "token_usage" \in DOMAIN res THEN res.token_usage.total_tokens ELSE 0

\* server.py lines 216-238: the ChatResponse of a result
ChatResponseOf(res, r, c) ==
  IF res.success
    THEN [ status |-> 200, success |-> TRUE, agent_type |-> res.agent_type,
           content |-> res.content, jurisdiction |-> r.jurisdiction,
           model |-> IF "model" \in DOMAIN res THEN res.model ELSE c.model,
           confidence |-> "0.90", tokens_used |-> TokensOf(res),
           error |-> "", crewai_powered |-> TRUE ]
    ELSE [ status |-> 200, success |-> FALSE, agent_type |-> res.agent_type,
           content |-> "", jurisdiction |-> r.jurisdiction,
           model |-> c.model, confidence |-> "0.0", tokens_used |-> 0,
           error |-> IF "error" \in DOMAIN res THEN res.error ELSE "Unknown error",
           crewai_powered |-> TRUE ]

\* server.py lines 172-179
Http503 ==
  [ status |-> 503, error |-> "LLM not configured", fallback |-> TRUE ]

(***************************************************************************)
(* State space: the environments, files and requests considered.           *)
(***************************************************************************)
EmptyEnv == [ n \in {} |-> << >> ]

Key1 == <<"s","k","-","1">>
Key2 == <<"s","k","-","2">>
NovitaKey == <<"n","k">>
YamlKey == <<"y","k">>
YamlUrl == <<"y","u">>
Url1 == <<"u","1">>
Url2 == <<"u","2">>

\* The environment the process starts with: each key set or not, or every
\* variable of the OpenAI endpoint set
InitEnvs ==
  { [ n \in (IF k THEN {"OPENAI_API_KEY"} ELSE {}) \cup (IF v THEN {"NOVITA_API_KEY"} ELSE {})
        |-> IF n = "OPENAI_API_KEY" THEN Key1 ELSE NovitaKey ]
    : k \in BOOLEAN, v \in BOOLEAN }
  \cup { [ OPENAI_API_KEY |-> Key1, OPENAI_BASE_URL |-> Url1, CREWAI_MODEL |-> "m1" ] }

\* ~/.genspark_llm.yaml: absent, the untouched template, or filled in
NoFile == [ exists |-> FALSE, openai |-> FALSE, api_key |-> << >>, base_url |-> << >> ]
YamlFiles ==
  { NoFile,
    [ exists |-> TRUE, openai |-> TRUE, api_key |-> <<"$","{","K","E","Y","}">>, base_url |-> <<"$","{","U","R","L","}">> ],
    [ exists |-> TRUE, openai |-> TRUE, api_key |-> YamlKey, base_url |-> YamlUrl ] }

Queries == { <<"h","e","l","l","o">>, <<"D","r","a","f","t">> }
Jurisdictions == { <<"m","i","s","s","o","u","r","i">>, <<"K","A","N","S","A","S">> }
AgentTypes == { "", "analyst", "paralegal" }

\* server.py lines 66-74: the ChatRequests considered (None is "")
ChatRequests ==
  [ message : Queries, jurisdiction : Jurisdictions, agent_type : AgentTypes,
    matter_facts : { "", "facts" }, document_type : { "", "nda" },
    full_crew : BOOLEAN ]

\* server.py lines 109-112: the ConfigureRequests considered (None is empty)
ConfigureRequests ==
  [ api_key : { Key2 }, base_url : { << >>, Url2 }, model : { "", "m2" } ]

\* The messages given to GET /api/crew/classify: up to MaxFragments of these
Fragments ==
  << <<"f","i","n","d">>, <<" ","R","I","S","K">>, <<"h","e","l","l","o"," ">>, <<"D","r","a","f","t"," ","a"," ">>, <<"M","O","T","I","O","N"," ","T","O">>, <<"W","h","a","t"," ","A","m"," ","I"," ","M","i","s","s","i","n","g">>,
     <<"p","l","a","n">>, <<"R","e","v","i","e","w">>, <<" ","K",".","S",".","A">>, <<"s","o","l">> >>

RECURSIVE FragmentSeqs(_)
FragmentSeqs(n) ==
  IF n = 0 THEN { << >> }
  ELSE LET shorter == FragmentSeqs(n - 1)
       IN  shorter \cup { Append(q, i) : q \in shorter, i \in 1..Len(Fragments) }

MessageOf(q) == Concat([ i \in 1..Len(q) |-> Fragments[q[i]] ])

(***************************************************************************)
(* POST /api/crew/chat: server.py crew_chat, with run_single_agent and     *)
(* run_full_crew inlined at the positions where it calls them.             *)
(***************************************************************************)
\* A mutant of KeyMissing: the request goes on without a key.
KeyMissingIgnored(c) == FALSE

\* server.py line 171: not cfg["api_key"]
KeyMissing(c) == c.api_key = << >>

\* server.py lines 168-182: the configuration is resolved, a request without a
\* key is refused with 503, and the agent type is the forced one or the
\* classified one
ChatArrive(r) ==
  /\ pc = "idle"
  /\ LET c == get_llm_config(env, yaml)
     IN  /\ req' = r
         /\ cfg' = c
         /\ IF KeyMissing(c)
              THEN /\ response' = Http503
                   /\ agent_type' = ""
                   /\ classifyCalls' = 0
                   /\ pc' = "done"
              ELSE /\ response' = Nil
                   /\ agent_type' = IF r.agent_type # "" THEN r.agent_type
                                    ELSE classify_intent(r.message)
                   /\ classifyCalls' = IF r.agent_type # "" THEN 0 ELSE 1
                   /\ pc' = "dispatch"
  /\ llm' = Nil
  /\ tasks' = << >>
  /\ submitted' = << >>
  /\ outputs' = << >>
  /\ result' = Nil
  /\ cfgReads' = 0
  /\ UNCHANGED << yaml, confVars, classVars >>

\* crew.py lines 363-398 (server.py line 198): the client is created from the
\* configuration read now, the agent is looked up, its task is built
RunSingleStart ==
  /\ pc = "dispatch"
  /\ ~req.full_crew
  /\ llm' = create_llm(env, yaml)
  /\ cfgReads' = cfgReads + 1
  /\ classifyCalls' = classifyCalls + (IF agent_type = "" THEN 1 ELSE 0)
  /\ LET a == ResolveAgentType(agent_type, req.message)
     IN  IF HasAgent(a)
           THEN /\ tasks' = << SingleTask(a, req) >>
                /\ result' = result
                /\ pc' = "kickoff"
           ELSE /\ tasks' = tasks
                /\ result' = SingleFailure(a, "KeyError", req.jurisdiction)
                /\ pc' = "respond"
  /\ UNCHANGED << req, cfg, agent_type, submitted, outputs, response,
                  yaml, confVars, classVars >>

\* crew.py lines 429-457 (server.py line 191)
RunFullStart ==
  /\ pc = "dispatch"
  /\ req.full_crew
  /\ llm' = create_llm(env, yaml)
  /\ cfgReads' = cfgReads + 1
  /\ tasks' = FullTasks(req)
  /\ pc' = "kickoff"
  /\ UNCHANGED << req, cfg, agent_type, submitted, outputs, result, response,
                  classifyCalls, yaml, confVars, classVars >>

\* The task crew.kickoff() runs next under Process.sequential
NextTask == tasks[Len(submitted) + 1]

\* crew.kickoff() (crew.py lines 400 and 459): the next task is submitted to
\* the LLM and completes
CrewStepOk ==
  /\ pc = "kickoff"
  /\ submitted' = Append(submitted, NextTask.agent)
  /\ outputs' = Append(outputs, [ agent |-> NextTask.agent, raw |-> NextTask.agent,
                                  total_tokens |-> 1 ])
  /\ pc' = IF Len(submitted) + 1 = Len(tasks) THEN "finish" ELSE "kickoff"
  /\ UNCHANGED << req, cfg, agent_type, llm, tasks, result, response, cfgReads,
                  classifyCalls, yaml, confVars, classVars >>

\* crew.kickoff(): the next task is submitted to the LLM and fails; the
\* exception leaves kickoff and is caught at crew.py line 411 or 472
CrewStepFail ==
  /\ pc = "kickoff"
  /\ submitted' = Append(submitted, NextTask.agent)
  /\ result' = IF req.full_crew
                 THEN FullFailure("EngineError", req.jurisdiction)
                 ELSE SingleFailure(ResolveAgentType(agent_type, req.message),
                                    "EngineError", req.jurisdiction)
  /\ pc' = "respond"
  /\ UNCHANGED << req, cfg, agent_type, llm, tasks, outputs, response, cfgReads,
                  classifyCalls, yaml, confVars, classVars >>

\* crew.py lines 402-409 and 461-470: the result of a kickoff that returned;
\* its model is read from the configuration again
RunFinish ==
  /\ pc = "finish"
  /\ cfgReads' = cfgReads + 1
  /\ result' = IF req.full_crew
                 THEN FullSuccess(req.jurisdiction, tasks, outputs, env, yaml)
                 ELSE SingleSuccess(ResolveAgentType(agent_type, req.message),
                                    req.jurisdiction, outputs, env, yaml)
  /\ pc' = "respond"
  /\ UNCHANGED << req, cfg, agent_type, llm, tasks, submitted, outputs, response,
                  classifyCalls, yaml, confVars, classVars >>

\* server.py lines 206-238
ChatRespond ==
  /\ pc = "respond"
  /\ response' = ChatResponseOf(result, req, cfg)
  /\ pc' = "done"
  /\ UNCHANGED << req, cfg, agent_type, llm, tasks, submitted, outputs, result,
                  cfgReads, classifyCalls, yaml, confVars, classVars >>

\* The response has been sent: the locals of the request are gone
ChatReturn ==
  /\ pc = "done"
  /\ pc' = "idle"
  /\ req' = Nil
  /\ cfg' = Nil
  /\ agent_type' = ""
  /\ llm' = Nil
  /\ tasks' = << >>
  /\ submitted' = << >>
  /\ outputs' = << >>
  /\ result' = Nil
  /\ response' = Nil
  /\ cfgReads' = 0
  /\ classifyCalls' = 0
  /\ UNCHANGED << yaml, confVars, classVars >>

(***************************************************************************)
(* POST /api/crew/configure: server.py configure_llm.                      *)
(***************************************************************************)
\* A mutant of ConfigureEnv: a model that is not given is reset to the default.
ConfigureEnvResetsModel(e, c) ==
  LET e1 == EnvSet(e, "OPENAI_API_KEY", c.api_key)
      e2 == IF c.base_url # << >> THEN EnvSet(e1, "OPENAI_BASE_URL", c.base_url) ELSE e1
  IN  EnvSet(e2, "CREWAI_MODEL", IF c.model # "" THEN c.model ELSE DefaultModel)

\* server.py lines 259-263
ConfigureEnv(e, c) ==
  LET e1 == EnvSet(e, "OPENAI_API_KEY", c.api_key)
      e2 == IF c.base_url # << >> THEN EnvSet(e1, "OPENAI_BASE_URL", c.base_url) ELSE e1
  IN  IF c.model # "" THEN EnvSet(e2, "CREWAI_MODEL", c.model) ELSE e2

\* server.py lines 154 and 280: the base URL as it is reported
ShownUrl(u) == IF Len(u) > 60 THEN SubSeq(u, 1, 60) \o << ".", ".", "." >> ELSE u

\* server.py lines 259-266: the environment is written, the configuration read
ConfigureWrite(c) ==
  /\ cpc = "idle"
  /\ nconf < MaxConfigures
  /\ env' = ConfigureEnv(env, c)
  /\ creq' = c
  /\ ccfg' = get_llm_config(ConfigureEnv(env, c), yaml)
  /\ cpc' = "verify"
  /\ lastKey' = << >>
  /\ nconf' = nconf + 1
  /\ UNCHANGED << cresp, yaml, chatVars, classVars >>

\* server.py lines 267-284: one call to the LLM, whose outcome is reported
ConfigureVerify(reachable) ==
  /\ cpc = "verify"
  /\ cresp' = [ success |-> reachable, model |-> ccfg.model,
                base_url |-> ShownUrl(ccfg.base_url), llm_reachable |-> reachable ]
  /\ lastKey' = creq.api_key
  /\ creq' = Nil
  /\ ccfg' = Nil
  /\ cpc' = "idle"
  /\ UNCHANGED << env, nconf, yaml, chatVars, classVars >>

(***************************************************************************)
(* GET /api/crew/classify: server.py classify.                             *)
(***************************************************************************)
\* server.py lines 287-291: the message of the request is classified
ClassifyRequest ==
  /\ cbest = "none"
  /\ cbest' = classify_intent(cmsg)
  /\ UNCHANGED << cmsg, yaml, chatVars, confVars >>

(***************************************************************************)
(* Specifications.                                                         *)
(***************************************************************************)
InitChat ==
  /\ pc = "idle"
  /\ req = Nil
  /\ cfg = Nil
  /\ agent_type = ""
  /\ llm = Nil
  /\ tasks = << >>
  /\ submitted = << >>
  /\ outputs = << >>
  /\ result = Nil
  /\ response = Nil
  /\ cfgReads = 0
  /\ classifyCalls = 0

InitConfigure ==
  /\ cpc = "idle"
  /\ creq = Nil
  /\ ccfg = Nil
  /\ cresp = Nil
  /\ lastKey = << >>
  /\ nconf = 0

InitClassifier ==
  /\ cmsg = << >>
  /\ cbest = "none"

\* The server after start-up, in any of the environments considered
Init ==
  /\ env \in InitEnvs
  /\ yaml \in YamlFiles
  /\ InitChat
  /\ InitConfigure
  /\ InitClassifier

Next ==
  \/ \E r \in ChatRequests : ChatArrive(r)
  \/ RunSingleStart
  \/ RunFullStart
  \/ CrewStepOk
  \/ CrewStepFail
  \/ RunFinish
  \/ ChatRespond
  \/ ChatReturn
  \/ \E c \in ConfigureRequests : ConfigureWrite(c)
  \/ \E reachable \in BOOLEAN : ConfigureVerify(reachable)

Spec == Init /\ [][Next]_vars

\* The classifier alone, asked about any message of up to MaxFragments fragments
InitClassify ==
  /\ env = EmptyEnv
  /\ yaml = NoFile
  /\ InitChat
  /\ InitConfigure
  /\ cmsg \in { MessageOf(q) : q \in FragmentSeqs(MaxFragments) }
  /\ cbest = "none"

NextClassify == ClassifyRequest

SpecClassify == InitClassify /\ [][NextClassify]_vars

(***************************************************************************)
(* Properties.                                                             *)
(***************************************************************************)
\* run_single_agent or run_full_crew has been entered for the current request
Entered == cfgReads > 0
\* ... and has returned its result
Returned == Entered /\ pc \in { "respond", "done" }

IsPrefix(p, q) == Len(p) <= Len(q) /\ p = SubSeq(q, 1, Len(p))

FullOrders ==
  { << "researcher", "analyst", "strategist" >>,
    << "researcher", "analyst", "drafter", "strategist" >> }

\* C1: in a full-crew run the roles submitted to the LLM are, at every moment, a
\* prefix of researcher, analyst, strategist or of researcher, analyst, drafter,
\* strategist, and a run whose kickoff returned submitted exactly one of the two.
FullOrderIsFixed ==
  (Entered /\ req.full_crew) =>
     /\ \E o \in FullOrders : IsPrefix(submitted, o)
     /\ (pc = "finish" \/ (Returned /\ result.success)) => submitted \in FullOrders

FullOrderWitness ==
  /\ pc = "done" /\ Entered /\ req.full_crew
  /\ submitted = << "researcher", "analyst", "drafter", "strategist" >>

\* The query, lowercased, has one of the six trigger words as a substring
HasTrigger(query) ==
  \E k \in 1..Len(drafter_triggers) : \E i \in 1..Len(query) :
     /\ i + Len(drafter_triggers[k]) - 1 <= Len(query)
     /\ SubSeq(Lower(query), i, i + Len(drafter_triggers[k]) - 1) = drafter_triggers[k]

\* C2: the task list of a full-crew run holds a drafter task exactly when a
\* document type is given or the lowercased query contains a trigger word,
\* whatever the jurisdiction and the matter facts are.
DrafterIffRequested ==
  (Entered /\ req.full_crew) =>
     ( (\E i \in 1..Len(tasks) : tasks[i].agent = "drafter")
         <=> (req.document_type # "" \/ HasTrigger(req.message)) )

DrafterWitness ==
  /\ Entered /\ req.full_crew /\ pc = "done"
  /\ req.document_type = "" /\ req.message # Lower(req.message)
  /\ req.matter_facts = "facts" /\ req.jurisdiction # Lower(req.jurisdiction)
  /\ "drafter" \in { submitted[i] : i \in 1..Len(submitted) }

\* C3: a successful full-crew result names exactly the roles that ran, and as
\* many of them as it counts tasks.
RolesUsedAreRolesRun ==
  (Returned /\ req.full_crew /\ result.success) =>
     /\ result.agents_used = submitted
     /\ Len(result.agents_used) = result.tasks_completed

\* C4: when a step of a full-crew run fails, it is the last step submitted (no
\* later step, no second attempt), and the result is a failure with an error,
\* empty content and nothing of the steps that completed; so is the response.
FailureAbortsRun ==
  (Returned /\ req.full_crew /\ ~result.success) =>
     /\ Len(submitted) = Len(outputs) + 1
     /\ \E o \in FullOrders : IsPrefix(submitted, o)
     /\ result.error # ""
     /\ result.content = ""
     /\ "token_usage" \notin DOMAIN result
     /\ pc = "done" => /\ ~response.success
                       /\ response.error = result.error
                       /\ response.content = ""
                       /\ response.tokens_used = 0

FailureWitness ==
  /\ Returned /\ pc = "done" /\ req.full_crew /\ ~result.success
  /\ Len(tasks) = 3
  /\ submitted = << "researcher", "analyst" >>
  /\ Len(outputs) = 1

\* C5: failed and successful results have the same fields: every result
\* carries agent_type, jurisdiction, model, agents_used, tasks_completed and
\* token_usage.
ResultsShareOneShape ==
  Returned =>
     { "success", "content", "agent_type", "jurisdiction", "model",
       "agents_used", "tasks_completed", "token_usage" } \subseteq DOMAIN result

\* C6: the run that starts after a configure request returned, with no other
\* configure request since, creates its client with that request's key.
NextRunUsesNewKey ==
  [][ (pc = "dispatch" /\ pc' # "dispatch" /\ lastKey # << >>)
        => ("api_key" \in DOMAIN llm' /\ llm'.api_key = lastKey) ]_vars

UpperChar(c) ==
  IF \E i \in 1..Len(LowerChars) : LowerChars[i] = c
    THEN UpperChars[CHOOSE i \in 1..Len(LowerChars) : LowerChars[i] = c]
    ELSE c
Upper(s) == [ i \in 1..Len(s) |-> UpperChar(s[i]) ]
SwapCase(s) == [ i \in 1..Len(s) |-> IF UpperChar(s[i]) # s[i] THEN UpperChar(s[i])
                                      ELSE LowerChar(s[i]) ]

NoKeyRejected ==
  (pc # "idle" /\ cfg.api_key = << >>) =>
     /\ pc = "done"
     /\ response = Http503
     /\ classifyCalls = 0
     /\ ~Entered
     /\ llm = Nil
     /\ tasks = << >>
     /\ submitted = << >>
     /\ result = Nil

NoKeyWitness ==
  /\ pc = "done" /\ response.status = 503 /\ cfg.api_key = << >>

\* C9: a single-agent run forced to an agent type that is none of the four
\* roles fails at once: no task, no submission, a failed result and response
\* that still name the forced type.
UnknownRoleFailsFast ==
  (Entered /\ ~req.full_crew /\ req.agent_type \notin Roles \cup { "" }) =>
     /\ Returned
     /\ tasks = << >>
     /\ submitted = << >>
     /\ outputs = << >>
     /\ ~result.success
     /\ result.agent_type = req.agent_type
     /\ pc = "done" => /\ ~response.success
                       /\ response.agent_type = req.agent_type
                       /\ response.content = ""

UnknownRoleWitness ==
  /\ pc = "done" /\ Entered /\ ~req.full_crew /\ req.agent_type = "paralegal"
  /\ ~response.success

\* C10: between the start of a run and the return of its result the
\* configuration is read exactly once.
OneConfigReadPerRun ==
  Returned => cfgReads = 1

\* The agent type a single-agent request resolves to: the forced one, else
\* the classified one
ResolvedRole == IF req.agent_type # "" THEN req.agent_type ELSE classify_intent(req.message)

\* C11 as stated: every single-agent run, whatever agent type is forced,
\* builds one task for the resolved type, submits exactly one task, and
\* returns a result naming the resolved type.
SingleRunsOneTaskAlways ==
  (Returned /\ ~req.full_crew) =>
     /\ Len(tasks) = 1
     /\ submitted = << ResolvedRole >>
     /\ result.agent_type = ResolvedRole

\* C11 as amended: a single-agent run whose resolved agent type is one of the
\* four roles builds one task, for that role, submits it once and no other,
\* and its result and response name that role, whether the task succeeded or
\* failed.
SingleRunsOneTask ==
  (Entered /\ ~req.full_crew) =>
     LET role == ResolvedRole
     IN  role \in Roles =>
            /\ agent_type = role
            /\ Len(tasks) = 1
            /\ tasks[1].agent = role
            /\ IsPrefix(submitted, << role >>)
            /\ pc \in { "finish", "respond", "done" } => submitted = << role >>
            /\ Returned => result.agent_type = role
            /\ pc = "done" => response.agent_type = role

SingleRunWitness ==
  /\ pc = "done" /\ Entered /\ ~req.full_crew
  /\ req.agent_type = "" /\ ResolvedRole = "drafter"
  /\ ~result.success /\ result.error = "EngineError"
  /\ response.agent_type = "drafter"

Written(c, e) ==
  /\ EnvGet(e, "OPENAI_API_KEY", << >>) = c.api_key
  /\ c.base_url # << >> => EnvGet(e, "OPENAI_BASE_URL", << >>) = c.base_url
  /\ c.model # "" => EnvGet(e, "CREWAI_MODEL", "") = c.model

\* C13, the part about the environment: while the verification call is
\* pending the values of the request are already written, and the step that
\* answers, verified or not, leaves the environment as it is.
ConfigureNeverRollsBack ==
  [][ cpc = "verify" =>
        /\ Written(creq, env)
        /\ cpc' = "idle" => /\ env' = env
                            /\ cresp'.success = cresp'.llm_reachable ]_vars

\* C13: a configure request writes its values before verifying and keeps
\* them when the verification fails, so that the run that starts next, with
\* no other configure request since, creates its client with the new key.
ConfigureKeptAndUsed ==
  [][ /\ cpc = "verify" => (Written(creq, env) /\ (cpc' = "idle" => env' = env))
      /\ (pc = "dispatch" /\ pc' # "dispatch" /\ lastKey # << >> /\ ~cresp.success)
           => ("api_key" \in DOMAIN llm' /\ llm'.api_key = lastKey) ]_vars

\* The key get_llm_config resolves is the Novita key: no other key is found
NovitaSupplied(e, y) ==
  /\ EnvGet(e, "NOVITA_API_KEY", << >>) # << >>
  /\ YamlConfig(EnvConfig(e), y).api_key = << >>

\* A configure request that gives only a key has just written the environment
KeyOnlyWrite == cpc = "idle" /\ cpc' = "verify" /\ creq'.base_url = << >> /\ creq'.model = ""

SameUrlAndModel ==
  /\ get_llm_config(env', yaml).base_url = get_llm_config(env, yaml).base_url
  /\ get_llm_config(env', yaml).model = get_llm_config(env, yaml).model

\* C14 as stated: a configure request that gives only a key leaves the base
\* URL and the model that get_llm_config resolves as they were, in every
\* configuration.
KeyOnlyKeepsUrlAndModelAlways ==
  [][ KeyOnlyWrite => SameUrlAndModel ]_vars

\* C14 as amended: a configure request that gives only a key leaves the
\* resolved base URL and model as they were, unless the key resolved before
\* it was the Novita key.
KeyOnlyKeepsUrlAndModel ==
  [][ (KeyOnlyWrite /\ ~NovitaSupplied(env, yaml)) => SameUrlAndModel ]_vars

\* A key-only request written over an environment that set its own base URL
\* and model, which the configuration read after the write still resolves
KeyOnlyWitness ==
  /\ cpc = "verify" /\ creq.base_url = << >> /\ creq.model = ""
  /\ env["OPENAI_API_KEY"] = creq.api_key
  /\ "NOVITA_API_KEY" \notin DOMAIN env
  /\ ccfg.base_url = Url1 /\ ccfg.model = "m1"

\* The roles of a task list, in order
RolesOf(tsks) == [ i \in 1..Len(tsks) |-> tsks[i].agent ]

\* C15: in a full-crew run the forced role has no effect: the task list
\* run_full_crew builds is the one the same request builds with any other
\* forced role, valid or not, or with none; it stays as built, its roles are
\* submitted in that order, and the result and the response name "full_crew",
\* whether the run succeeds or fails.
ForcedRoleIgnored ==
  [][ /\ (pc = "dispatch" /\ pc' = "kickoff" /\ req.full_crew) =>
            \A f \in AgentTypes \cup Roles :
               tasks' = FullTasks([ req EXCEPT !.agent_type = f ])
      /\ (Entered' /\ req'.full_crew) =>
            /\ pc # "dispatch" => tasks' = tasks
            /\ IsPrefix(submitted', RolesOf(tasks'))
            /\ Returned' => result'.agent_type = "full_crew"
            /\ pc' = "done" => response'.agent_type = "full_crew" ]_vars

ForcedRoleWitness ==
  /\ pc = "done" /\ Entered /\ req.full_crew
  /\ req.agent_type = "analyst"
  /\ result.success /\ Len(submitted) > 1
  /\ response.agent_type = "full_crew"

====
